---- MODULE Spec2Model ----
(***************************************************************************)
(* Model of WhatsAppService (src/src/whatsapp/whatsapp.service.ts) and of  *)
(* WebhookService (src/unnamed/part_001) for one clientId.                  *)
(*                                                                         *)
(* The service keeps four in-memory collections keyed by clientId          *)
(* (clients, qrCodes, initializingClients, readyTimeouts); the model holds *)
(* the entry of one clientId in each.  Every async method or event         *)
(* callback is a process: a record in `procs` whose pc names the await at  *)
(* which it is suspended.  One action is the synchronous code between two  *)
(* awaits; a storage call takes effect when it is issued and its caller    *)
(* resumes in a later step, so other callbacks may run in between, as on   *)
(* the Node.js event loop.                                                 *)
(*                                                                         *)
(* The connection capability (whatsapp-web.js Client) is the environment:  *)
(* a connection object emits events while it is live, gets its info once   *)
(* authenticated, and tears itself down after emitting `disconnected`.     *)
(***************************************************************************)
EXTENDS Integers, FiniteSets, Sequences, TLC

\* ---- bounds of the model
MaxClients == 3      \* connection objects (new Client) created in one run
MaxStarts == 3       \* initSession calls made through the control surface
MaxProcs == 3        \* calls and callbacks suspended at an await at once
MaxSame == 2         \* of them, calls or callbacks of the same kind
MaxAuth == 1         \* authenticated events one connection object emits
MaxChanges == 1      \* change_state events one connection object emits
QrFew == 1           \* qr events per connection object where qr is not the subject
MaxQr == 7            \* qr events per connection object where qr is the subject
MaxMessages == 2     \* inbound message events and sendMessage calls, each
MaxHooks == 2        \* createWebhook and deleteWebhook calls
MaxTicks == 2        \* clock readings that differ
MaxChecks == 2       \* checkAndFixReadyState calls
MaxRestore == 4      \* Session documents in the database when the process starts

\* ---- program constants
MaxQrAttempts == 5   \* qrCount > 5 aborts the attempt

\* ensureSessionsDirectory and deleteSession use ./wa-sessions; LocalAuth is
\* constructed with {clientId} only, so it keeps the library's default dataPath.
SessionsDir == "wa-sessions"
LocalAuthDataPath == ".wwebjs_auth"
sessionDir(dataPath) == <<dataPath, "session-clientId">>
\* new LocalAuth({ clientId }): where the connection object keeps its artifacts
authDir == sessionDir(LocalAuthDataPath)
\* path.resolve('./wa-sessions', `session-${clientId}`): what deleteSession removes
sessionPath == sessionDir(SessionsDir)

Clients == 1..MaxClients
NoClient == 0
NoTimer == <<0, 0>>
Null == "null"
HookEvents == {"qr_code", "ready", "disconnected", "auth_failure", "message"}

VARIABLES
  clients,              \* this.clients.get(clientId): a connection object or NoClient
  qrCodes,              \* this.qrCodes.has(clientId)
  initializingClients,  \* this.initializingClients.has(clientId)
  readyTimeouts,        \* this.readyTimeouts.get(clientId): a timer handle or NoTimer
  cl,                   \* the connection objects: state, info, the closure's qrCount
  timers,               \* pending 60 s ready-timeouts (handles)
  followTimers,         \* pending 5 s follow-up checks, by connection object
  stateTimers,          \* pending 3 s change_state checks, by connection object
  restartTimers,        \* pending 3 s restart delays
  session,              \* the Session document of clientId
  messages,             \* number of Message documents of clientId
  webhook,              \* the Webhook document of clientId
  fs,                   \* directories on disk
  now,                  \* the clock new Date() reads
  procs,                \* suspended calls and callbacks
  calls,                \* calls and events so far, against the run's budget
  deleted,              \* yes: deleteSession returned, no start or restart since its call
  hookCalls,            \* sendWebhook invocations, by connection object and event
  posts,                \* axios.post calls made: object, event, document found, ordinal
  hookFailure,          \* the latest failed delivery: logged, or thrown to the caller
  lastStart,            \* outcome of the latest initSession call's synchronous part
  overlapStart,         \* whether that call began while another was in flight
  lastSend,             \* outcome of the latest finished sendMessage call
  setup,                \* fixed in a run: the budget, the build's $set of undefined
  restore               \* restoreSessions: its position, the sessions it found, their initSession calls

registry == <<clients, qrCodes, initializingClients, readyTimeouts>>
pending == <<timers, followTimers, stateTimers, restartTimers>>
store == <<session, messages, webhook, fs>>
hooks == <<hookCalls, posts, hookFailure>>
starting == <<lastStart, overlapStart>>
fixed == <<now, lastSend, setup, restore>>
vars == <<registry, cl, pending, store, procs, calls, deleted, hooks, starting,
          fixed>>

\* ---- storage: the Session document (src/src/schema/message.schema.ts)
NoSession ==
  [exists |-> FALSE, status |-> "disconnected", qrCode |-> Null,
   phoneNumber |-> Null, messageCount |-> 0, lastActivity |-> 0]

\* sessionModel.updateOne({clientId}, {$set: updates}, {upsert: true})
updateSession(s, updates) ==
  [f \in DOMAIN s |->
     IF f = "exists" THEN TRUE
     ELSE IF f \in DOMAIN updates THEN updates[f] ELSE s[f]]

updateSessionStatus(s, status) ==
  updateSession(s, [status |-> status, lastActivity |-> now])

\* $set of a key whose value is undefined: dropped from the update or stored
\* as null, depending on the Mongoose build.
setUndefined(s, f) == IF setup.omitUndefined THEN s[f] ELSE Null

\* ---- storage: the Webhook document (src/src/schema/webhook.schema.ts)
NoWebhook == [exists |-> FALSE, enabled |-> FALSE, events |-> {}, secret |-> FALSE]
\* a subscription to every event, as createSession stores it
AllEvents == [exists |-> TRUE, enabled |-> TRUE, events |-> {}, secret |-> FALSE]

\* ---- processes
\* A suspended call or callback: its kind (the method or event), the await it
\* is suspended at, the connection object it holds (the `client` of its
\* closure, or the one cleanupClient is destroying), a number that tells two
\* calls of the same kind apart, the count it read from countDocuments, and,
\* while it is inside sendWebhook, the event, the stage and the document found.
Proc(kind, pc, c, id) ==
  [kind |-> kind, pc |-> pc, c |-> c, id |-> id, n |-> 0,
   ev |-> Null, hook |-> "none", doc |-> NoWebhook]

FreeIds(kind) == {i \in 1..MaxSame : \A p \in procs : ~(p.kind = kind /\ p.id = i)}
CanSpawn(kind) == FreeIds(kind) # {} /\ Cardinality(procs) < setup.lim.procs
NewProc(kind, pc, c) ==
  Proc(kind, pc, c, CHOOSE i \in FreeIds(kind) : \A j \in FreeIds(kind) : i <= j)
Spawn(kind, pc, c) == procs' = procs \cup {NewProc(kind, pc, c)}
Move(p, pc, c) == procs' = (procs \ {p}) \cup {[p EXCEPT !.pc = pc, !.c = c]}
Finish(p) == procs' = procs \ {p}
\* resumable by its own code: not inside sendWebhook
At(p, kind, pc) == p.kind = kind /\ p.pc = pc /\ p.hook = "none"

\* get / clearTimeout / delete of the registered ready-timeout
ClearReadyTimeout ==
  /\ timers' = timers \ {readyTimeouts}
  /\ readyTimeouts' = NoTimer

\* A connection object: st is none (not created), live, destroying (destroy()
\* called) or destroyed; info is client.info; qrCount is the closure variable of
\* setupClientEventHandlers; the rest counts the events the object has emitted.
FreshClient ==
  [st |-> "none", info |-> FALSE, qrCount |-> 0, auths |-> 0, ready |-> FALSE,
   failed |-> FALSE, changes |-> 0]
NewClient == [FreshClient EXCEPT !.st = "live"]
Created == {c \in Clients : cl[c].st # "none"}
CanEmit(c) == cl[c].st = "live"
\* client.destroy() is called
destroyCalled(c) == [cl EXCEPT ![c].st = IF @ = "live" THEN "destroying" ELSE @]
InitsInFlight == {p \in procs : p.kind = "init"}
\* initSession calls that have not yet constructed their connection object
InitsPending == {p \in InitsInFlight : p.pc \in {"cleanup_destroy", "status"}}

\* The budget of a run: connection objects, control-surface calls, events per
\* connection object, clock readings.  A specification sets what it uses.
NoBudget ==
  [clients |-> 0, starts |-> 0, restarts |-> 0, deletes |-> 0, qr |-> 0,
   auth |-> 0, changes |-> 0, msgs |-> 0, sends |-> 0, hooks |-> 0, ticks |-> 0,
   checks |-> 0, procs |-> MaxProcs]

\* The state after construction, with no session restored.
IdleService ==
  /\ clients = NoClient
  /\ qrCodes = FALSE
  /\ initializingClients = FALSE
  /\ readyTimeouts = NoTimer
  /\ cl = [c \in Clients |-> FreshClient]
  /\ timers = {}
  /\ followTimers = {}
  /\ stateTimers = {}
  /\ restartTimers = 0
  /\ session = NoSession
  /\ messages = 0
  /\ fs = {<<SessionsDir>>}
  /\ now = 0
  /\ procs = {}
  /\ calls = [start |-> 0, restart |-> 0, delete |-> 0, send |-> 0, message |-> 0,
              hook |-> 0, check |-> 0]
  /\ deleted = "no"
  /\ hookCalls = [c \in Clients |-> [e \in HookEvents |-> 0]]
  /\ posts = {}
  /\ hookFailure = "none"
  /\ lastStart = "none"
  /\ overlapStart = FALSE
  /\ lastSend = "none"

\* ---- the sessions restoreSessions works on
Identities == 1..MaxRestore

\* restoreSessions has run and found no Session persisted as connected
NoRestore ==
  [pc |-> "done", found |-> TRUE, sessions |-> {}, todo |-> {},
   status |-> [i \in Identities |-> "other"],
   run |-> [i \in Identities |-> "none"]]

\* the service after construction, nothing to restore
Idle == IdleService /\ restore = NoRestore

\* ---- WebhookService.sendWebhook
\* C8 mutant: the lookup does not ask for enabled: true.
C8_IgnoresEnabled(doc, event) ==
  /\ doc.exists
  /\ (event \in doc.events \/ Cardinality(doc.events) = 0)

\* C9 mutant: sendWebhook rejects when a stage of it failed.
C9_Rethrows(stage) == TRUE

\* findOne({clientId, enabled: true,
\*          $or: [{events: {$in: [event]}}, {events: {$size: 0}}]})
findWebhook(doc, event) ==
  /\ doc.exists
  /\ doc.enabled
  /\ (event \in doc.events \/ Cardinality(doc.events) = 0)

\* Whether sendWebhook rejects to its caller when a stage of it failed: its
\* whole body is in a try whose catch only logs.
sendWebhookRejects(stage) == FALSE

\* the storage lookup may fail, the HTTP call may fail or time out
Faults == IF setup.faults THEN {FALSE, TRUE} ELSE {FALSE}

\* Process p calls sendWebhook(clientId, event) and will go on at pc: findOne
\* is issued, and answers when the process resumes.
sendWebhook(p, pc, event) ==
  /\ \E err \in Faults :
       procs' = (procs \ {p}) \cup
         {[p EXCEPT !.pc = pc, !.ev = event,
                    !.hook = IF err THEN "error"
                             ELSE IF findWebhook(webhook, event) THEN "found"
                             ELSE "absent",
                    !.doc = IF ~err /\ findWebhook(webhook, event)
                            THEN webhook ELSE NoWebhook]}
  /\ hookCalls' = [hookCalls EXCEPT ![p.c][event] = @ + 1]

\* sendWebhook is over for p, after success or after a failure its catch
\* logged.  A handler with code after the call goes on there; a rejection
\* would take the handler's own catch instead: the ready handler's writes
\* `connected` again, handleManualReady's skips clearing the ready-timeout
\* (handleReadyTimeout's finally still deletes the entry).
webhookReturn(p, failedStage) ==
  IF failedStage # "none" /\ sendWebhookRejects(failedStage)
  THEN /\ hookFailure' = "thrown"
       /\ Finish(p)
       /\ session' = IF p.kind = "ready"
                     THEN updateSessionStatus(session, "connected")
                     ELSE session
       /\ readyTimeouts' = IF p.kind = "readyTimeout" THEN NoTimer
                           ELSE readyTimeouts
  ELSE /\ IF p.pc = "webhook"
          THEN Finish(p)
          ELSE procs' = (procs \ {p}) \cup
                 {[p EXCEPT !.ev = Null, !.hook = "none", !.doc = NoWebhook]}
       /\ hookFailure' = IF failedStage # "none" THEN "logged" ELSE hookFailure
       /\ UNCHANGED <<session, readyTimeouts>>

\* axios.post calls made so far for an event of a connection object
postsOf(c, event) == Cardinality({r \in posts : r.c = c /\ r.ev = event})

\* findOne answered: no document, return; a document, axios.post
WebhookAfterLookup(p) ==
  /\ p.hook \in {"found", "absent", "error"}
  /\ IF p.hook = "found"
     THEN /\ posts' = posts \cup {[c |-> p.c, ev |-> p.ev, doc |-> p.doc,
                                   nth |-> postsOf(p.c, p.ev) + 1]}
          /\ procs' = (procs \ {p}) \cup {[p EXCEPT !.hook = "post"]}
          /\ UNCHANGED <<hookFailure, session, readyTimeouts>>
     ELSE /\ webhookReturn(p, IF p.hook = "error" THEN "lookup" ELSE "none")
          /\ UNCHANGED posts
  /\ UNCHANGED <<clients, qrCodes, initializingClients, cl, pending, messages,
                 webhook, fs, calls, deleted, hookCalls, starting, fixed>>

\* axios.post answered, or failed, or timed out after 10 s
WebhookAfterPost(p) ==
  /\ p.hook = "post"
  /\ \E failed \in Faults : webhookReturn(p, IF failed THEN "post" ELSE "none")
  /\ UNCHANGED <<clients, qrCodes, initializingClients, cl, pending, messages,
                 webhook, fs, calls, deleted, hookCalls, posts, starting, fixed>>

\* ---- initSession
\* The synchronous part of initSession: the guard, the stale-handle branch and
\* the finally block of the early returns.
initSessionBegin ==
  /\ Cardinality(Created) + Cardinality(InitsPending) < setup.lim.clients
  /\ overlapStart' = (InitsInFlight # {})
  /\ IF initializingClients
     THEN \* return {success: false, status: 'initializing'}; finally: delete
          /\ initializingClients' = FALSE
          /\ lastStart' = "rejected"
          /\ UNCHANGED <<clients, qrCodes, readyTimeouts, cl, timers, session, procs>>
     ELSE IF clients # NoClient /\ cl[clients].info
     THEN \* return {success: true, status: 'connected'}; finally: delete
          /\ initializingClients' = FALSE
          /\ lastStart' = "connected"
          /\ UNCHANGED <<clients, qrCodes, readyTimeouts, cl, timers, session, procs>>
     ELSE IF clients # NoClient
     THEN \* await this.cleanupClient(clientId): suspended in client.destroy()
          /\ CanSpawn("init")
          /\ ClearReadyTimeout
          /\ cl' = destroyCalled(clients)
          /\ Spawn("init", "cleanup_destroy", clients)
          /\ lastStart' = "accepted"
          /\ UNCHANGED <<clients, qrCodes, initializingClients, session>>
     ELSE \* add to initializingClients; await updateSessionStatus('connecting')
          /\ CanSpawn("init")
          /\ initializingClients' = TRUE
          /\ session' = updateSessionStatus(session, "connecting")
          /\ Spawn("init", "status", NoClient)
          /\ lastStart' = "accepted"
          /\ UNCHANGED <<clients, qrCodes, readyTimeouts, cl, timers>>

\* initSession is called through the control surface
InitSessionCall ==
  /\ calls.start < setup.lim.starts
  /\ calls' = [calls EXCEPT !.start = @ + 1]
  /\ deleted' = "no"
  /\ initSessionBegin
  /\ UNCHANGED <<followTimers, stateTimers, restartTimers, messages, webhook, fs,
                 hooks, fixed>>

\* destroy() returned: cleanupClient ends (clients.delete, qrCodes.delete,
\* initializingClients.delete) and initSession goes on: initializingClients.add,
\* await updateSessionStatus('connecting')
InitAfterCleanup(p) ==
  /\ At(p, "init", "cleanup_destroy")
  /\ cl' = [cl EXCEPT ![p.c].st = "destroyed"]
  /\ clients' = NoClient
  /\ qrCodes' = FALSE
  /\ initializingClients' = TRUE
  /\ session' = updateSessionStatus(session, "connecting")
  /\ Move(p, "status", NoClient)
  /\ UNCHANGED <<readyTimeouts, pending, messages, webhook, fs, calls, deleted,
                 hooks, starting, fixed>>

\* updateSessionStatus returned: new Client, setupClientEventHandlers (which
\* clears a registered ready-timeout), clients.set, client.initialize()
InitAfterStatus(p) ==
  /\ At(p, "init", "status")
  /\ \E c \in Clients :
       /\ cl[c].st = "none"
       /\ \A d \in Clients : d < c => cl[d].st # "none"
       /\ cl' = [cl EXCEPT ![c] = NewClient]
       /\ ClearReadyTimeout
       /\ clients' = c
       /\ Move(p, "initialize", c)
  /\ fs' = fs \cup {authDir}
  /\ UNCHANGED <<qrCodes, initializingClients, followTimers, stateTimers,
                 restartTimers, session, messages, webhook, calls, deleted, hooks,
                 starting, fixed>>

\* Promise.race resolved: return {success: true}; finally: delete
InitializeResolved(p) ==
  /\ At(p, "init", "initialize")
  /\ initializingClients' = FALSE
  /\ Finish(p)
  /\ UNCHANGED <<clients, qrCodes, readyTimeouts, cl, pending, store, calls,
                 deleted, hooks, starting, fixed>>

\* ---- handleInitializationFailure
\* Its synchronous part: clear the ready-timeout, issue the status write.
failureBegin(p) ==
  /\ ClearReadyTimeout
  /\ session' = updateSessionStatus(session, "disconnected")
  /\ Move(p, "fail_status", p.c)

\* Promise.race rejected (initialize error or the 240 s timeout): catch
InitializeRejected(p) ==
  /\ At(p, "init", "initialize")
  /\ failureBegin(p)
  /\ UNCHANGED <<clients, qrCodes, initializingClients, cl, followTimers,
                 stateTimers, restartTimers, messages, webhook, fs, calls, deleted,
                 hooks, starting, fixed>>

\* updateSessionStatus returned; cleanupClient runs: with a registered
\* connection object up to its await of destroy(), without one to its end, and
\* then the caller goes on: initSession's finally deletes the initializing
\* flag, handleReadyTimeout's finally deletes the ready-timeout entry, the
\* auth_failure handler calls sendWebhook.
FailAfterStatus(p) ==
  /\ p.pc = "fail_status" /\ p.hook = "none"
  /\ timers' = timers \ {readyTimeouts}
  /\ readyTimeouts' = NoTimer
  /\ IF clients # NoClient
     THEN /\ cl' = destroyCalled(clients)
          /\ Move(p, "fail_destroy", clients)
          /\ UNCHANGED <<qrCodes, initializingClients, hookCalls>>
     ELSE /\ qrCodes' = FALSE
          /\ initializingClients' = FALSE
          /\ IF p.kind = "auth_failure"
             THEN sendWebhook(p, "webhook", "auth_failure")
             ELSE Finish(p) /\ UNCHANGED hookCalls
          /\ UNCHANGED cl
  /\ UNCHANGED <<clients, followTimers, stateTimers, restartTimers, store, calls,
                 deleted, posts, hookFailure, starting, fixed>>

\* destroy() returned: clients.delete, qrCodes.delete,
\* initializingClients.delete, and the caller goes on as above
FailAfterDestroy(p) ==
  /\ p.pc = "fail_destroy" /\ p.hook = "none"
  /\ cl' = [cl EXCEPT ![p.c].st = "destroyed"]
  /\ clients' = NoClient
  /\ qrCodes' = FALSE
  /\ initializingClients' = FALSE
  /\ readyTimeouts' = IF p.kind = "readyTimeout" THEN NoTimer ELSE readyTimeouts
  /\ IF p.kind = "auth_failure"
     THEN sendWebhook(p, "webhook", "auth_failure")
     ELSE Finish(p) /\ UNCHANGED hookCalls
  /\ UNCHANGED <<pending, store, calls, deleted, posts, hookFailure, starting, fixed>>

\* ---- the qr handler
\* qrCount++; more than MaxQrAttempts: handleInitializationFailure; else
\* await QRCode.toDataURL
QrEvent(c) ==
  /\ CanEmit(c) /\ cl[c].auths = 0
  /\ cl[c].qrCount < setup.lim.qr
  /\ CanSpawn("qr")
  /\ cl' = [cl EXCEPT ![c].qrCount = @ + 1]
  /\ IF cl[c].qrCount + 1 > MaxQrAttempts
     THEN /\ ClearReadyTimeout
          /\ session' = updateSessionStatus(session, "disconnected")
          /\ Spawn("qr", "fail_status", c)
     ELSE /\ Spawn("qr", "render", c)
          /\ UNCHANGED <<readyTimeouts, timers, session>>
  /\ UNCHANGED <<clients, qrCodes, initializingClients, followTimers, stateTimers,
                 restartTimers, messages, webhook, fs, calls, deleted, hooks,
                 starting, fixed>>

\* toDataURL returned: qrCodes.set, updateSession({status: 'qr_required', qrCode})
QrAfterRender(p) ==
  /\ At(p, "qr", "render")
  /\ qrCodes' = TRUE
  /\ session' = updateSession(session, [status |-> "qr_required", qrCode |-> "qr"])
  /\ Move(p, "persist", p.c)
  /\ UNCHANGED <<clients, initializingClients, readyTimeouts, cl, pending,
                 messages, webhook, fs, calls, deleted, hooks, starting, fixed>>

\* updateSession returned: sendWebhook('qr_code')
QrAfterPersist(p) ==
  /\ At(p, "qr", "persist")
  /\ sendWebhook(p, "webhook", "qr_code")
  /\ UNCHANGED <<registry, cl, pending, store, calls, deleted, posts, hookFailure,
                 starting, fixed>>

\* ---- the authenticated handler
\* setTimeout returns a handle no pending or registered timer has
newTimer(c) ==
  LET free == {n \in 1..(MaxAuth + 1) : <<c, n>> \notin timers \cup {readyTimeouts}}
  IN <<c, CHOOSE n \in free : \A m \in free : n <= m>>

\* qrCodes.delete, await updateSessionStatus('connecting')
AuthenticatedEvent(c) ==
  /\ CanEmit(c)
  /\ cl[c].auths < setup.lim.auth
  /\ CanSpawn("authenticated")
  /\ cl' = [cl EXCEPT ![c].auths = @ + 1]
  /\ qrCodes' = FALSE
  /\ session' = updateSessionStatus(session, "connecting")
  /\ Spawn("authenticated", "status", c)
  /\ UNCHANGED <<clients, initializingClients, readyTimeouts, pending, messages,
                 webhook, fs, calls, deleted, hooks, starting, fixed>>

\* updateSessionStatus returned: setTimeout(60000), readyTimeouts.set
AuthenticatedAfterStatus(p) ==
  /\ At(p, "authenticated", "status")
  /\ LET t == newTimer(p.c) IN
       /\ timers' = timers \cup {t}
       /\ readyTimeouts' = t
  /\ Finish(p)
  /\ UNCHANGED <<clients, qrCodes, initializingClients, cl, followTimers,
                 stateTimers, restartTimers, store, calls, deleted, hooks,
                 starting, fixed>>

\* client.info becomes available (the capability sets it once authenticated)
SetInfo(c) ==
  /\ CanEmit(c)
  /\ cl[c].auths > 0
  /\ ~cl[c].info
  /\ cl' = [cl EXCEPT ![c].info = TRUE]
  /\ UNCHANGED <<registry, pending, store, procs, calls, deleted, hooks, starting,
                 fixed>>

\* ---- persisting `connected`
\* updateSession({status: 'connected', phoneNumber: client.info?.wid?.user,
\*                lastActivity: new Date(), qrCode: undefined})
persistConnected(s, c) ==
  updateSession(s, [status |-> "connected",
                    phoneNumber |-> IF cl[c].info THEN "phone"
                                    ELSE setUndefined(s, "phoneNumber"),
                    lastActivity |-> now,
                    qrCode |-> setUndefined(s, "qrCode")])

\* ---- the ready handler
\* clear the ready-timeout, wait 1 s
ReadyEvent(c) ==
  /\ CanEmit(c)
  /\ cl[c].auths > 0
  /\ ~cl[c].ready
  /\ CanSpawn("ready")
  /\ cl' = [cl EXCEPT ![c].ready = TRUE]
  /\ ClearReadyTimeout
  /\ Spawn("ready", "settle", c)
  /\ UNCHANGED <<clients, qrCodes, initializingClients, followTimers, stateTimers,
                 restartTimers, store, calls, deleted, hooks, starting, fixed>>

\* the 1 s are over: without info, getState and return; with info, updateSession
ReadyAfterSettle(p) ==
  /\ At(p, "ready", "settle")
  /\ IF cl[p.c].info
     THEN /\ session' = persistConnected(session, p.c)
          /\ Move(p, "persist", p.c)
     ELSE /\ Finish(p)
          /\ UNCHANGED session
  /\ UNCHANGED <<registry, cl, pending, messages, webhook, fs, calls, deleted,
                 hooks, starting, fixed>>

\* updateSession returned: qrCodes.delete, sendWebhook('ready')
ReadyAfterPersist(p) ==
  /\ At(p, "ready", "persist")
  /\ qrCodes' = FALSE
  /\ sendWebhook(p, "webhook", "ready")
  /\ UNCHANGED <<clients, initializingClients, readyTimeouts, cl, pending, store,
                 calls, deleted, posts, hookFailure, starting, fixed>>

\* ---- handleManualReady
\* Its synchronous part, run by a new process of kind `kind` for object c.
manualReadyBegin(kind, c) ==
  /\ CanSpawn(kind)
  /\ session' = persistConnected(session, c)
  /\ Spawn(kind, "mr_persist", c)

\* updateSession returned: qrCodes.delete, sendWebhook('ready')
ManualReadyAfterPersist(p) ==
  /\ p.pc = "mr_persist" /\ p.hook = "none"
  /\ qrCodes' = FALSE
  /\ sendWebhook(p, "mr_webhook", "ready")
  /\ UNCHANGED <<clients, initializingClients, readyTimeouts, cl, pending, store,
                 calls, deleted, posts, hookFailure, starting, fixed>>

\* sendWebhook returned: clear the ready-timeout; handleReadyTimeout's finally
\* deletes the (already deleted) entry again
ManualReadyAfterWebhook(p) ==
  /\ p.pc = "mr_webhook" /\ p.hook = "none"
  /\ ClearReadyTimeout
  /\ Finish(p)
  /\ UNCHANGED <<clients, qrCodes, initializingClients, cl, followTimers,
                 stateTimers, restartTimers, store, calls, deleted, hooks,
                 starting, fixed>>

\* ---- the change_state handler (CONNECTED or OPENING) and its 3 s check
ChangeStateEvent(c) ==
  /\ CanEmit(c)
  /\ cl[c].changes < setup.lim.changes
  /\ cl' = [cl EXCEPT ![c].changes = @ + 1]
  /\ stateTimers' = stateTimers \cup {c}
  /\ UNCHANGED <<registry, timers, followTimers, restartTimers, store, procs,
                 calls, deleted, hooks, starting, fixed>>

StateTimerFire(c) ==
  /\ c \in stateTimers
  /\ stateTimers' = stateTimers \ {c}
  /\ IF cl[c].info /\ readyTimeouts = NoTimer
     THEN manualReadyBegin("stateCheck", c)
     ELSE UNCHANGED <<session, procs>>
  /\ UNCHANGED <<registry, cl, timers, followTimers, restartTimers, messages,
                 webhook, fs, calls, deleted, hooks, starting, fixed>>

\* ---- the disconnected handler
\* clear the ready-timeout, await updateSessionStatus('disconnected')
DisconnectedEvent(c) ==
  /\ CanEmit(c)
  /\ CanSpawn("disconnected")
  /\ cl' = [cl EXCEPT ![c].st = "destroyed"]
  /\ ClearReadyTimeout
  /\ session' = updateSessionStatus(session, "disconnected")
  /\ Spawn("disconnected", "status", c)
  /\ UNCHANGED <<clients, qrCodes, initializingClients, followTimers, stateTimers,
                 restartTimers, messages, webhook, fs, calls, deleted, hooks,
                 starting, fixed>>

\* updateSessionStatus returned: clients.delete, qrCodes.delete, sendWebhook
DisconnectedAfterStatus(p) ==
  /\ At(p, "disconnected", "status")
  /\ clients' = NoClient
  /\ qrCodes' = FALSE
  /\ sendWebhook(p, "webhook", "disconnected")
  /\ UNCHANGED <<initializingClients, readyTimeouts, cl, pending, store, calls,
                 deleted, posts, hookFailure, starting, fixed>>

\* ---- the auth_failure handler: handleInitializationFailure, then sendWebhook
AuthFailureEvent(c) ==
  /\ CanEmit(c)
  /\ cl[c].auths = 0
  /\ ~cl[c].failed
  /\ CanSpawn("auth_failure")
  /\ cl' = [cl EXCEPT ![c].failed = TRUE]
  /\ ClearReadyTimeout
  /\ session' = updateSessionStatus(session, "disconnected")
  /\ Spawn("auth_failure", "fail_status", c)
  /\ UNCHANGED <<clients, qrCodes, initializingClients, followTimers, stateTimers,
                 restartTimers, messages, webhook, fs, calls, deleted, hooks,
                 starting, fixed>>

\* ---- the ready-timeout: handleReadyTimeout(clientId, client)
\* with info, handleManualReady; without, await client.getState()
ReadyTimerFire(t) ==
  /\ t \in timers
  /\ timers' = timers \ {t}
  /\ IF cl[t[1]].info
     THEN manualReadyBegin("readyTimeout", t[1])
     ELSE /\ CanSpawn("readyTimeout")
          /\ Spawn("readyTimeout", "getState", t[1])
          /\ UNCHANGED session
  /\ UNCHANGED <<registry, cl, followTimers, stateTimers, restartTimers, messages,
                 webhook, fs, calls, deleted, hooks, starting, fixed>>

\* What client.getState() can give: a state, or a rejection once the
\* connection object's page is gone.
getStateResults(c) ==
  IF cl[c].st = "live" THEN {"CONNECTED", "OTHER", "THROW"} ELSE {"THROW"}

\* getState returned: CONNECTED arms the 5 s follow-up check, anything else is
\* an initialization failure; finally readyTimeouts.delete
ReadyTimeoutAfterGetState(p) ==
  /\ At(p, "readyTimeout", "getState")
  /\ \E state \in getStateResults(p.c) :
       IF state = "CONNECTED"
       THEN /\ followTimers' = followTimers \cup {p.c}
            /\ readyTimeouts' = NoTimer
            /\ Finish(p)
            /\ UNCHANGED <<timers, session>>
       ELSE /\ failureBegin(p)
            /\ UNCHANGED followTimers
  /\ UNCHANGED <<clients, qrCodes, initializingClients, cl, stateTimers,
                 restartTimers, messages, webhook, fs, calls, deleted, hooks,
                 starting, fixed>>

\* ---- cleanupClient, as restartSession and deleteSession call it
\* With a registered connection object: clear the ready-timeout, call
\* destroy() and suspend.
cleanupBegin(kind) ==
  /\ ClearReadyTimeout
  /\ cl' = destroyCalled(clients)
  /\ Spawn(kind, "cleanup_destroy", clients)
  /\ UNCHANGED <<clients, qrCodes, initializingClients>>

\* destroy() returned: clients.delete, qrCodes.delete, initializingClients.delete
cleanupEnd(p) ==
  /\ cl' = [cl EXCEPT ![p.c].st = "destroyed"]
  /\ clients' = NoClient
  /\ qrCodes' = FALSE
  /\ initializingClients' = FALSE

\* ---- restartSession
\* Its synchronous part: cleanupClient up to destroy(), or, with no registered
\* connection object, all of cleanupClient and the status write.
restartBegin ==
  /\ CanSpawn("restart")
  /\ IF clients # NoClient
     THEN /\ cleanupBegin("restart")
          /\ UNCHANGED session
     ELSE /\ ClearReadyTimeout
          /\ qrCodes' = FALSE
          /\ initializingClients' = FALSE
          /\ session' = updateSessionStatus(session, "disconnected")
          /\ Spawn("restart", "status", NoClient)
          /\ UNCHANGED <<clients, cl>>

\* restartSession is called through the control surface
RestartCall ==
  /\ calls.restart < setup.lim.restarts
  /\ calls' = [calls EXCEPT !.restart = @ + 1]
  /\ deleted' = "no"
  /\ restartBegin
  /\ UNCHANGED <<followTimers, stateTimers, restartTimers, messages, webhook, fs,
                 hooks, starting, fixed>>

\* the 5 s follow-up check of handleReadyTimeout: with info,
\* handleManualReady; without, restartSession
FollowTimerFire(c) ==
  /\ c \in followTimers
  /\ followTimers' = followTimers \ {c}
  /\ IF cl[c].info
     THEN /\ manualReadyBegin("followUp", c)
          /\ UNCHANGED <<registry, cl, timers>>
     ELSE restartBegin
  /\ UNCHANGED <<stateTimers, restartTimers, messages, webhook, fs, calls, deleted,
                 hooks, starting, fixed>>

\* destroy() returned; cleanupClient ends; updateSessionStatus('disconnected')
RestartAfterCleanup(p) ==
  /\ At(p, "restart", "cleanup_destroy")
  /\ cleanupEnd(p)
  /\ session' = updateSessionStatus(session, "disconnected")
  /\ Move(p, "status", NoClient)
  /\ UNCHANGED <<readyTimeouts, pending, messages, webhook, fs, calls, deleted,
                 hooks, starting, fixed>>

\* updateSessionStatus returned: setTimeout(initSession, 3000), return
RestartAfterStatus(p) ==
  /\ At(p, "restart", "status")
  /\ restartTimers' = restartTimers + 1
  /\ Finish(p)
  /\ UNCHANGED <<registry, cl, timers, followTimers, stateTimers, store, calls,
                 deleted, hooks, starting, fixed>>

\* the 3 s restart delay is over: initSession(clientId)
RestartTimerFire ==
  /\ restartTimers > 0
  /\ restartTimers' = restartTimers - 1
  /\ initSessionBegin
  /\ UNCHANGED <<followTimers, stateTimers, messages, webhook, fs, calls, deleted,
                 hooks, fixed>>

\* ---- deleteSession
\* Its synchronous part: cleanupClient up to destroy(), or, with no registered
\* connection object, cleanupClient, rmSync(sessionPath) and deleteOne.
DeleteCall ==
  /\ calls.delete < setup.lim.deletes
  /\ calls' = [calls EXCEPT !.delete = @ + 1]
  /\ CanSpawn("delete")
  /\ deleted' = "running"
  /\ IF clients # NoClient
     THEN /\ cleanupBegin("delete")
          /\ UNCHANGED <<session, fs>>
     ELSE /\ ClearReadyTimeout
          /\ qrCodes' = FALSE
          /\ initializingClients' = FALSE
          /\ fs' = fs \ {sessionPath}
          /\ session' = NoSession
          /\ Spawn("delete", "deleteOne", NoClient)
          /\ UNCHANGED <<clients, cl>>
  /\ UNCHANGED <<followTimers, stateTimers, restartTimers, messages, webhook,
                 hooks, starting, fixed>>

\* destroy() returned; cleanupClient ends; rmSync(sessionPath), deleteOne
DeleteAfterCleanup(p) ==
  /\ At(p, "delete", "cleanup_destroy")
  /\ cleanupEnd(p)
  /\ fs' = fs \ {sessionPath}
  /\ session' = NoSession
  /\ Move(p, "deleteOne", NoClient)
  /\ UNCHANGED <<readyTimeouts, pending, messages, webhook, calls, deleted, hooks,
                 starting, fixed>>

\* deleteOne returned: messageModel.deleteMany
DeleteAfterSession(p) ==
  /\ At(p, "delete", "deleteOne")
  /\ messages' = 0
  /\ Move(p, "deleteMany", NoClient)
  /\ UNCHANGED <<registry, cl, pending, session, webhook, fs, calls, deleted,
                 hooks, starting, fixed>>

\* deleteMany returned: return {success: true}
DeleteAfterMessages(p) ==
  /\ At(p, "delete", "deleteMany")
  /\ deleted' = IF deleted = "running" THEN "yes" ELSE deleted
  /\ Finish(p)
  /\ UNCHANGED <<registry, cl, pending, store, calls, hooks, starting, fixed>>

\* the snapshot getSessionStatus returns
getSessionStatus ==
  [status |-> IF session.exists THEN session.status ELSE "disconnected",
   phoneNumber |-> session.phoneNumber,
   connected |-> clients # NoClient /\ cl[clients].info,
   messageCount |-> IF session.exists THEN session.messageCount ELSE 0,
   qrCode |-> qrCodes,
   isInitializing |-> initializingClients]

\* ---- checkAndFixReadyState
\* called through the control surface: without a registered connection object
\* it returns 'Client not found'; else await client.getState()
CheckReadyCall ==
  /\ clients # NoClient
  /\ calls.check < setup.lim.checks
  /\ CanSpawn("check")
  /\ calls' = [calls EXCEPT !.check = @ + 1]
  /\ Spawn("check", "getState", clients)
  /\ UNCHANGED <<registry, cl, pending, store, deleted, hooks, starting, fixed>>

\* getState answered: a rejection is returned as a message; with
\* (state === 'CONNECTED' || client.info) && !readyTimeouts.has the call runs
\* handleManualReady; else it returns the state
CheckAfterGetState(p) ==
  /\ At(p, "check", "getState")
  /\ \E state \in getStateResults(p.c) :
       IF /\ state # "THROW"
          /\ state = "CONNECTED" \/ cl[p.c].info
          /\ readyTimeouts = NoTimer
       THEN /\ session' = persistConnected(session, p.c)
            /\ Move(p, "mr_persist", p.c)
       ELSE /\ Finish(p)
            /\ UNCHANGED session
  /\ UNCHANGED <<registry, cl, pending, messages, webhook, fs, calls, deleted,
                 hooks, starting, fixed>>

\* ---- restoreSessions
\* C25 mutant: the loop calls initSession without awaiting it.
C25_FireAndForget == FALSE

\* `await this.initSession(session.clientId)`: the loop waits for the call
awaitsInitSession == TRUE

\* recovery initSession calls that have not returned
Recovering == {i \in Identities : restore.run[i] \in {"status", "initialize", "failing"}}

\* the loop goes on to the session after i: the next 3 s delay, or the end
loopAfter(i) ==
  [pc |-> IF restore.todo \ {i} = {} THEN "done" ELSE "delay",
   todo |-> restore.todo \ {i}]

\* sessionModel.find({status: 'connected'}) answered: the documents, taken in
\* ascending order, or a rejection, which the catch logs
RestoreFind ==
  /\ restore.pc = "find"
  /\ \E ok \in BOOLEAN :
       LET found == {i \in Identities : restore.status[i] = "connected"} IN
       restore' = [restore EXCEPT
                     !.found = ok,
                     !.sessions = IF ok THEN found ELSE {},
                     !.todo = IF ok THEN found ELSE {},
                     !.pc = IF ok /\ found # {} THEN "delay" ELSE "done"]
  /\ UNCHANGED <<registry, cl, pending, store, procs, calls, deleted, hooks,
                 starting, now, lastSend, setup>>

\* the 3 s delay is over: initSession of the next session begins (guard passed,
\* initializingClients.add, await updateSessionStatus('connecting'))
RestoreDelayOver ==
  /\ restore.pc = "delay"
  /\ LET i == CHOOSE i \in restore.todo : \A j \in restore.todo : i <= j IN
       restore' = [restore EXCEPT
                     !.run[i] = "status",
                     !.status[i] = "connecting",
                     !.pc = IF awaitsInitSession THEN "init" ELSE loopAfter(i).pc,
                     !.todo = IF awaitsInitSession THEN @ ELSE loopAfter(i).todo]
  /\ UNCHANGED <<registry, cl, pending, store, procs, calls, deleted, hooks,
                 starting, now, lastSend, setup>>

\* updateSessionStatus returned: new Client, clients.set, await Promise.race
RecoverAfterStatus(i) ==
  /\ restore.run[i] = "status"
  /\ restore' = [restore EXCEPT !.run[i] = "initialize"]
  /\ UNCHANGED <<registry, cl, pending, store, procs, calls, deleted, hooks,
                 starting, now, lastSend, setup>>

\* initSession returns to the loop with result r
recoverReturn(i, r) ==
  restore' = [restore EXCEPT
                !.run[i] = r,
                !.pc = IF awaitsInitSession THEN loopAfter(i).pc ELSE @,
                !.todo = IF awaitsInitSession THEN loopAfter(i).todo ELSE @]

\* client.initialize() resolved: return {success: true, status: 'connecting'}
RecoverInitializeResolved(i) ==
  /\ restore.run[i] = "initialize"
  /\ recoverReturn(i, "ok")
  /\ UNCHANGED <<registry, cl, pending, store, procs, calls, deleted, hooks,
                 starting, now, lastSend, setup>>

\* client.initialize() rejected or the 240 s passed: the catch awaits
\* handleInitializationFailure
RecoverInitializeRejected(i) ==
  /\ restore.run[i] = "initialize"
  /\ restore' = [restore EXCEPT !.run[i] = "failing", !.status[i] = "disconnected"]
  /\ UNCHANGED <<registry, cl, pending, store, procs, calls, deleted, hooks,
                 starting, now, lastSend, setup>>

\* handleInitializationFailure returned: return {success: false}
RecoverAfterFailure(i) ==
  /\ restore.run[i] = "failing"
  /\ recoverReturn(i, "failed")
  /\ UNCHANGED <<registry, cl, pending, store, procs, calls, deleted, hooks,
                 starting, now, lastSend, setup>>

\* ---- the message handler: handleIncomingMessage
\* messageModel.create
MessageEvent(c) ==
  /\ CanEmit(c)
  /\ cl[c].auths > 0
  /\ calls.message < setup.lim.msgs
  /\ CanSpawn("message")
  /\ calls' = [calls EXCEPT !.message = @ + 1]
  /\ messages' = messages + 1
  /\ Spawn("message", "create", c)
  /\ UNCHANGED <<registry, cl, pending, session, webhook, fs, deleted, hooks,
                 starting, fixed>>

\* create returned: countDocuments reads the number of Message documents
CountAfterCreate(p) ==
  /\ p.kind \in {"message", "send"} /\ p.pc = "create" /\ p.hook = "none"
  /\ procs' = (procs \ {p}) \cup {[p EXCEPT !.pc = "count", !.n = messages]}
  /\ UNCHANGED <<registry, cl, pending, store, calls, deleted, hooks, starting,
                 fixed>>

\* countDocuments returned: updateSession({lastActivity, messageCount})
PersistAfterCount(p) ==
  /\ p.kind \in {"message", "send"} /\ p.pc = "count" /\ p.hook = "none"
  /\ session' = updateSession(session, [lastActivity |-> now, messageCount |-> p.n])
  /\ Move(p, "persist", p.c)
  /\ UNCHANGED <<registry, cl, pending, messages, webhook, fs, calls, deleted,
                 hooks, starting, fixed>>

\* updateSession returned: sendWebhook('message')
MessageAfterPersist(p) ==
  /\ At(p, "message", "persist")
  /\ sendWebhook(p, "webhook", "message")
  /\ UNCHANGED <<registry, cl, pending, store, calls, deleted, posts, hookFailure,
                 starting, fixed>>

\* ---- sendMessage
\* C10 mutant: the re-check after the grace period lets the call through.
C10_NoRecheck(c, recheck) ==
  IF c = NoClient THEN "Client not found"
  ELSE IF cl[c].info \/ recheck THEN "send"
  ELSE "wait"

\* What sendMessage does with the handle it read from the registry: without a
\* handle it throws; without client.info it waits 2 s once and, at the
\* re-check, throws; else it calls client.sendMessage.
sendMessageCheck(c, recheck) ==
  IF c = NoClient THEN "Client not found"
  ELSE IF cl[c].info THEN "send"
  ELSE IF recheck THEN "Client not ready"
  ELSE "wait"

SendFailures == {"Client not found", "Client not ready", "send failed"}

\* sendMessage is called through the control surface
SendMessageCall ==
  /\ calls.send < setup.lim.sends
  /\ CanSpawn("send")
  /\ calls' = [calls EXCEPT !.send = @ + 1]
  /\ LET check == sendMessageCheck(clients, FALSE) IN
       IF check \in SendFailures
       THEN /\ lastSend' = check
            /\ UNCHANGED procs
       ELSE /\ Spawn("send", IF check = "wait" THEN "grace" ELSE "sending", clients)
            /\ lastSend' = "none"
  /\ UNCHANGED <<registry, cl, pending, store, deleted, hooks, starting, now,
                 setup, restore>>

\* the 2 s are over: client.info is read again
SendAfterGrace(p) ==
  /\ At(p, "send", "grace")
  /\ LET check == sendMessageCheck(p.c, TRUE) IN
       IF check \in SendFailures
       THEN /\ lastSend' = check
            /\ Finish(p)
       ELSE /\ Move(p, "sending", p.c)
            /\ UNCHANGED lastSend
  /\ UNCHANGED <<registry, cl, pending, store, calls, deleted, hooks, starting,
                 now, setup, restore>>

\* client.sendMessage answered: it resolved on a live connection object, and
\* then messageModel.create is issued, or it rejected
SendAfterSend(p) ==
  /\ At(p, "send", "sending")
  /\ \E sent \in IF cl[p.c].st = "live" THEN {TRUE, FALSE} ELSE {FALSE} :
       IF sent
       THEN /\ messages' = messages + 1
            /\ Move(p, "create", p.c)
            /\ UNCHANGED lastSend
       ELSE /\ lastSend' = "send failed"
            /\ Finish(p)
            /\ UNCHANGED messages
  /\ UNCHANGED <<registry, cl, pending, session, webhook, fs, calls, deleted,
                 hooks, starting, now, setup, restore>>

\* updateSession returned: return {success: true}
SendAfterPersist(p) ==
  /\ At(p, "send", "persist")
  /\ lastSend' = "success"
  /\ Finish(p)
  /\ UNCHANGED <<registry, cl, pending, store, calls, deleted, hooks, starting,
                 now, setup, restore>>

\* the clock advances
Tick ==
  /\ now < setup.lim.ticks
  /\ now' = now + 1
  /\ UNCHANGED <<registry, cl, pending, store, procs, calls, deleted, hooks,
                 starting, lastSend, setup, restore>>

\* ---- WebhookService.createWebhook / deleteWebhook
\* event filters a subscription is configured with
Filters == {{}, {"qr_code"}, {"ready", "message"}}
Absent == "absent"
Settings == {"absent", "on", "off"}

\* findOneAndUpdate({clientId}, {...webhookData, clientId}, {upsert: true}):
\* the keys given are set; on insert a key not given takes the schema default
\* (enabled: true, events: []) where the build applies defaults on insert, and
\* stays missing, so that `enabled: true` does not match, where it does not.
createWebhook(doc, data, defaultsOnInsert) ==
  [exists |-> TRUE,
   enabled |-> IF data.enabled # Absent THEN data.enabled = "on"
               ELSE IF doc.exists THEN doc.enabled
               ELSE defaultsOnInsert,
   events |-> IF data.events # {Absent} THEN data.events
              ELSE IF doc.exists THEN doc.events
              ELSE {},
   secret |-> doc.secret]

CreateWebhookCall ==
  /\ calls.hook < setup.lim.hooks
  /\ calls' = [calls EXCEPT !.hook = @ + 1]
  /\ \E enabled \in Settings, events \in {{Absent}} \cup Filters,
        defaultsOnInsert \in BOOLEAN :
       webhook' = createWebhook(webhook, [enabled |-> enabled, events |-> events],
                                defaultsOnInsert)
  /\ UNCHANGED <<registry, cl, pending, session, messages, fs, procs, deleted,
                 hooks, starting, fixed>>

\* webhookModel.deleteOne({clientId})
DeleteWebhookCall ==
  /\ calls.hook < setup.lim.hooks
  /\ calls' = [calls EXCEPT !.hook = @ + 1]
  /\ webhook' = NoWebhook
  /\ UNCHANGED <<registry, cl, pending, session, messages, fs, procs, deleted,
                 hooks, starting, fixed>>

\* ---- specifications
LifeLimits ==
  [NoBudget EXCEPT !.clients = 1, !.starts = 1, !.qr = QrFew, !.auth = MaxAuth,
                   !.changes = MaxChanges]

Init ==
  /\ Idle
  /\ webhook = AllEvents
  /\ \E b \in BOOLEAN : setup = [lim |-> LifeLimits, omitUndefined |-> b,
                                faults |-> FALSE]

Hook == \E p \in procs : WebhookAfterLookup(p) \/ WebhookAfterPost(p)

Next ==
  \/ InitSessionCall
  \/ \E p \in procs : InitAfterStatus(p)
  \/ \E p \in procs : InitializeResolved(p)
  \/ \E p \in procs : InitializeRejected(p)
  \/ \E p \in procs : FailAfterStatus(p)
  \/ \E p \in procs : FailAfterDestroy(p)
  \/ \E c \in Clients : QrEvent(c)
  \/ \E p \in procs : QrAfterRender(p)
  \/ \E p \in procs : QrAfterPersist(p)
  \/ \E c \in Clients : AuthenticatedEvent(c)
  \/ \E p \in procs : AuthenticatedAfterStatus(p)
  \/ \E c \in Clients : SetInfo(c)
  \/ \E c \in Clients : ReadyEvent(c)
  \/ \E p \in procs : ReadyAfterSettle(p)
  \/ \E p \in procs : ReadyAfterPersist(p)
  \/ \E p \in procs : ManualReadyAfterPersist(p)
  \/ \E p \in procs : ManualReadyAfterWebhook(p)
  \/ \E c \in Clients : ChangeStateEvent(c)
  \/ \E c \in Clients : StateTimerFire(c)
  \/ \E c \in Clients : DisconnectedEvent(c)
  \/ \E p \in procs : DisconnectedAfterStatus(p)
  \/ \E c \in Clients : AuthFailureEvent(c)
  \/ \E t \in timers : ReadyTimerFire(t)
  \/ \E p \in procs : ReadyTimeoutAfterGetState(p)
  \/ \E c \in Clients : FollowTimerFire(c)
  \/ \E p \in procs : RestartAfterCleanup(p)
  \/ \E p \in procs : RestartAfterStatus(p)
  \/ Hook

Spec == Init /\ [][Next]_vars

\* ---- concurrent starts: initSession calls, the failure path and qr events
StartLimits ==
  [NoBudget EXCEPT !.clients = MaxClients, !.starts = MaxStarts, !.qr = QrFew]

InitStart ==
  /\ Idle
  /\ webhook = AllEvents
  /\ setup = [lim |-> StartLimits, omitUndefined |-> TRUE, faults |-> FALSE]

NextStart ==
  \/ InitSessionCall
  \/ \E p \in procs : InitAfterCleanup(p)
  \/ \E p \in procs : InitAfterStatus(p)
  \/ \E p \in procs : InitializeResolved(p)
  \/ \E p \in procs : InitializeRejected(p)
  \/ \E p \in procs : FailAfterStatus(p)
  \/ \E p \in procs : FailAfterDestroy(p)
  \/ \E c \in Clients : QrEvent(c)
  \/ \E p \in procs : QrAfterRender(p)
  \/ \E p \in procs : QrAfterPersist(p)
  \/ Hook

SpecStart == InitStart /\ [][NextStart]_vars

\* ---- one attempt with many qr events
QrLimits == [NoBudget EXCEPT !.clients = 1, !.starts = 1, !.qr = MaxQr]

InitQr ==
  /\ Idle
  /\ webhook = AllEvents
  /\ setup = [lim |-> QrLimits, omitUndefined |-> TRUE, faults |-> FALSE]

NextQr ==
  \/ InitSessionCall
  \/ \E p \in procs : InitAfterStatus(p)
  \/ \E p \in procs : InitializeResolved(p)
  \/ \E c \in Clients : QrEvent(c)
  \/ \E p \in procs : QrAfterRender(p)
  \/ \E p \in procs : QrAfterPersist(p)
  \/ \E p \in procs : FailAfterStatus(p)
  \/ \E p \in procs : FailAfterDestroy(p)
  \/ Hook

SpecQr == InitQr /\ [][NextQr]_vars

\* ---- an authenticated attempt whose ready event never comes, timers and
\* ---- suspended calls scheduled fairly
LiveLimits ==
  [NoBudget EXCEPT !.clients = 2, !.starts = 1, !.auth = MaxAuth,
                   !.changes = MaxChanges]

InitLive ==
  /\ Idle
  /\ webhook = AllEvents
  /\ setup = [lim |-> LiveLimits, omitUndefined |-> TRUE, faults |-> FALSE]

\* a timer fires
TimerStep ==
  \/ \E t \in timers : ReadyTimerFire(t)
  \/ \E c \in Clients : FollowTimerFire(c)
  \/ \E c \in Clients : StateTimerFire(c)
  \/ RestartTimerFire

\* a suspended call or callback resumes
ResumeStep ==
  \/ \E p \in procs : InitAfterStatus(p)
  \/ \E p \in procs : InitializeResolved(p)
  \/ \E p \in procs : InitializeRejected(p)
  \/ \E p \in procs : FailAfterStatus(p)
  \/ \E p \in procs : FailAfterDestroy(p)
  \/ \E p \in procs : AuthenticatedAfterStatus(p)
  \/ \E p \in procs : ManualReadyAfterPersist(p)
  \/ \E p \in procs : ManualReadyAfterWebhook(p)
  \/ \E p \in procs : DisconnectedAfterStatus(p)
  \/ \E p \in procs : ReadyTimeoutAfterGetState(p)
  \/ \E p \in procs : RestartAfterCleanup(p)
  \/ \E p \in procs : RestartAfterStatus(p)
  \/ Hook

\* the capability emits an event or sets client.info; a start is requested
EventStep ==
  \/ InitSessionCall
  \/ \E c \in Clients : AuthenticatedEvent(c)
  \/ \E c \in Clients : SetInfo(c)
  \/ \E c \in Clients : ChangeStateEvent(c)
  \/ \E c \in Clients : DisconnectedEvent(c)

NextLive == TimerStep \/ ResumeStep \/ EventStep

SpecLive ==
  InitLive /\ [][NextLive]_vars /\ WF_vars(TimerStep) /\ WF_vars(ResumeStep)

\* ---- deleteSession during and after an attempt
DeleteLimits ==
  [NoBudget EXCEPT !.clients = 1, !.starts = 1, !.deletes = 1, !.qr = QrFew,
                   !.auth = MaxAuth, !.msgs = 1]

InitDelete ==
  /\ Idle
  /\ webhook = AllEvents
  /\ setup = [lim |-> DeleteLimits, omitUndefined |-> TRUE, faults |-> FALSE]

NextDelete ==
  \/ InitSessionCall
  \/ \E p \in procs : InitAfterStatus(p)
  \/ \E p \in procs : InitializeResolved(p)
  \/ \E c \in Clients : QrEvent(c)
  \/ \E p \in procs : QrAfterRender(p)
  \/ \E p \in procs : QrAfterPersist(p)
  \/ \E c \in Clients : AuthenticatedEvent(c)
  \/ \E p \in procs : AuthenticatedAfterStatus(p)
  \/ \E c \in Clients : SetInfo(c)
  \/ \E c \in Clients : MessageEvent(c)
  \/ \E p \in procs : CountAfterCreate(p)
  \/ \E p \in procs : PersistAfterCount(p)
  \/ \E p \in procs : MessageAfterPersist(p)
  \/ DeleteCall
  \/ \E p \in procs : DeleteAfterCleanup(p)
  \/ \E p \in procs : DeleteAfterSession(p)
  \/ \E p \in procs : DeleteAfterMessages(p)
  \/ Hook

SpecDelete == InitDelete /\ [][NextDelete]_vars

\* ---- subscriptions configured while events are dispatched
HookLimits ==
  [NoBudget EXCEPT !.clients = 1, !.starts = 1, !.qr = QrFew, !.auth = MaxAuth,
                   !.msgs = 1, !.hooks = MaxHooks]

InitHook ==
  /\ Idle
  /\ webhook \in {NoWebhook, AllEvents}
  /\ setup = [lim |-> HookLimits, omitUndefined |-> TRUE, faults |-> FALSE]

NextHook ==
  \/ InitSessionCall
  \/ \E p \in procs : InitAfterStatus(p)
  \/ \E p \in procs : InitializeResolved(p)
  \/ \E c \in Clients : QrEvent(c)
  \/ \E p \in procs : QrAfterRender(p)
  \/ \E p \in procs : QrAfterPersist(p)
  \/ \E c \in Clients : AuthenticatedEvent(c)
  \/ \E p \in procs : AuthenticatedAfterStatus(p)
  \/ \E c \in Clients : SetInfo(c)
  \/ \E c \in Clients : ReadyEvent(c)
  \/ \E p \in procs : ReadyAfterSettle(p)
  \/ \E p \in procs : ReadyAfterPersist(p)
  \/ \E c \in Clients : MessageEvent(c)
  \/ \E p \in procs : CountAfterCreate(p)
  \/ \E p \in procs : PersistAfterCount(p)
  \/ \E p \in procs : MessageAfterPersist(p)
  \/ \E c \in Clients : DisconnectedEvent(c)
  \/ \E p \in procs : DisconnectedAfterStatus(p)
  \/ CreateWebhookCall
  \/ DeleteWebhookCall
  \/ Hook

SpecHook == InitHook /\ [][NextHook]_vars

\* ---- deliveries that fail: the lookup or the HTTP call
FaultLimits ==
  [NoBudget EXCEPT !.clients = 1, !.starts = 1, !.qr = QrFew, !.auth = MaxAuth,
                   !.msgs = 1]

InitFault ==
  /\ Idle
  /\ webhook = AllEvents
  /\ setup = [lim |-> FaultLimits, omitUndefined |-> TRUE, faults |-> TRUE]

NextFault ==
  \/ InitSessionCall
  \/ \E p \in procs : InitAfterStatus(p)
  \/ \E p \in procs : InitializeResolved(p)
  \/ \E c \in Clients : QrEvent(c)
  \/ \E p \in procs : QrAfterRender(p)
  \/ \E p \in procs : QrAfterPersist(p)
  \/ \E c \in Clients : AuthenticatedEvent(c)
  \/ \E p \in procs : AuthenticatedAfterStatus(p)
  \/ \E c \in Clients : SetInfo(c)
  \/ \E c \in Clients : ReadyEvent(c)
  \/ \E p \in procs : ReadyAfterSettle(p)
  \/ \E p \in procs : ReadyAfterPersist(p)
  \/ \E t \in timers : ReadyTimerFire(t)
  \/ \E p \in procs : ReadyTimeoutAfterGetState(p)
  \/ \E p \in procs : ManualReadyAfterPersist(p)
  \/ \E p \in procs : ManualReadyAfterWebhook(p)
  \/ \E c \in Clients : MessageEvent(c)
  \/ \E p \in procs : CountAfterCreate(p)
  \/ \E p \in procs : PersistAfterCount(p)
  \/ \E p \in procs : MessageAfterPersist(p)
  \/ \E c \in Clients : DisconnectedEvent(c)
  \/ \E p \in procs : DisconnectedAfterStatus(p)
  \/ \E c \in Clients : AuthFailureEvent(c)
  \/ \E p \in procs : FailAfterStatus(p)
  \/ \E p \in procs : FailAfterDestroy(p)
  \/ Hook

SpecFault == InitFault /\ [][NextFault]_vars

\* ---- sendMessage calls and inbound messages while the clock advances
MsgLimits ==
  [NoBudget EXCEPT !.clients = 1, !.starts = 1, !.auth = MaxAuth,
                   !.msgs = 1, !.sends = MaxMessages, !.ticks = MaxTicks]

InitMsg ==
  /\ Idle
  /\ webhook = AllEvents
  /\ setup = [lim |-> MsgLimits, omitUndefined |-> TRUE, faults |-> FALSE]

NextMsg ==
  \/ InitSessionCall
  \/ \E p \in procs : InitAfterStatus(p)
  \/ \E p \in procs : InitializeResolved(p)
  \/ \E c \in Clients : AuthenticatedEvent(c)
  \/ \E p \in procs : AuthenticatedAfterStatus(p)
  \/ \E c \in Clients : SetInfo(c)
  \/ \E c \in Clients : MessageEvent(c)
  \/ \E p \in procs : CountAfterCreate(p)
  \/ \E p \in procs : PersistAfterCount(p)
  \/ \E p \in procs : MessageAfterPersist(p)
  \/ SendMessageCall
  \/ \E p \in procs : SendAfterGrace(p)
  \/ \E p \in procs : SendAfterSend(p)
  \/ \E p \in procs : SendAfterPersist(p)
  \/ \E c \in Clients : DisconnectedEvent(c)
  \/ \E p \in procs : DisconnectedAfterStatus(p)
  \/ Tick
  \/ Hook

SpecMsg == InitMsg /\ [][NextMsg]_vars

\* ---- inbound messages and sendMessage calls whose handlers overlap
CountLimits ==
  [NoBudget EXCEPT !.clients = 1, !.starts = 1, !.auth = MaxAuth,
                   !.msgs = MaxMessages, !.sends = 1]

InitCount ==
  /\ Idle
  /\ webhook = AllEvents
  /\ setup = [lim |-> CountLimits, omitUndefined |-> TRUE, faults |-> FALSE]

NextCount ==
  \/ InitSessionCall
  \/ \E p \in procs : InitAfterStatus(p)
  \/ \E p \in procs : InitializeResolved(p)
  \/ \E c \in Clients : AuthenticatedEvent(c)
  \/ \E p \in procs : AuthenticatedAfterStatus(p)
  \/ \E c \in Clients : SetInfo(c)
  \/ \E c \in Clients : MessageEvent(c)
  \/ \E p \in procs : CountAfterCreate(p)
  \/ \E p \in procs : PersistAfterCount(p)
  \/ \E p \in procs : MessageAfterPersist(p)
  \/ SendMessageCall
  \/ \E p \in procs : SendAfterGrace(p)
  \/ \E p \in procs : SendAfterSend(p)
  \/ \E p \in procs : SendAfterPersist(p)
  \/ Hook

SpecCount == InitCount /\ [][NextCount]_vars

\* ---- restartSession calls and their delayed re-attempts
RestartLimits == [NoBudget EXCEPT !.clients = 2, !.restarts = MaxStarts]

InitRestart ==
  /\ Idle
  /\ webhook = AllEvents
  /\ setup = [lim |-> RestartLimits, omitUndefined |-> TRUE, faults |-> FALSE]

NextRestart ==
  \/ RestartCall
  \/ \E p \in procs : RestartAfterCleanup(p)
  \/ \E p \in procs : RestartAfterStatus(p)
  \/ RestartTimerFire
  \/ \E p \in procs : InitAfterCleanup(p)
  \/ \E p \in procs : InitAfterStatus(p)
  \/ \E p \in procs : InitializeResolved(p)

SpecRestart == InitRestart /\ [][NextRestart]_vars

\* ---- checkAndFixReadyState calls during one connection attempt
CheckLimits ==
  [NoBudget EXCEPT !.clients = 1, !.starts = 1, !.auth = MaxAuth,
                   !.checks = MaxChecks]

InitCheck ==
  /\ Idle
  /\ webhook = AllEvents
  /\ \E b \in BOOLEAN : setup = [lim |-> CheckLimits, omitUndefined |-> b,
                                faults |-> FALSE]

NextCheck ==
  \/ InitSessionCall
  \/ \E p \in procs : InitAfterStatus(p)
  \/ \E p \in procs : InitializeResolved(p)
  \/ \E c \in Clients : AuthenticatedEvent(c)
  \/ \E p \in procs : AuthenticatedAfterStatus(p)
  \/ \E c \in Clients : SetInfo(c)
  \/ \E c \in Clients : ReadyEvent(c)
  \/ \E p \in procs : ReadyAfterSettle(p)
  \/ \E p \in procs : ReadyAfterPersist(p)
  \/ CheckReadyCall
  \/ \E p \in procs : CheckAfterGetState(p)
  \/ \E p \in procs : ManualReadyAfterPersist(p)
  \/ \E p \in procs : ManualReadyAfterWebhook(p)
  \/ Hook

SpecCheck == InitCheck /\ [][NextCheck]_vars

\* ---- process start: restoreSessions over the persisted sessions
InitRecover ==
  /\ IdleService
  /\ webhook = AllEvents
  /\ setup = [lim |-> NoBudget, omitUndefined |-> TRUE, faults |-> FALSE]
  /\ \E st \in [Identities -> {"connected", "other"}] :
       restore = [pc |-> "find", found |-> FALSE, sessions |-> {}, todo |-> {},
                  status |-> st,
                  run |-> [i \in Identities |-> "none"]]

NextRecover ==
  \/ RestoreFind
  \/ RestoreDelayOver
  \/ \E i \in Identities : RecoverAfterStatus(i)
  \/ \E i \in Identities : RecoverInitializeResolved(i)
  \/ \E i \in Identities : RecoverInitializeRejected(i)
  \/ \E i \in Identities : RecoverAfterFailure(i)

SpecRecover == InitRecover /\ [][NextRecover]_vars

\* ---- properties
\* connection objects created and not yet destroyed
Alive == {c \in Clients : cl[c].st \in {"live", "destroying"}}

\* C1: at any time at most one connection object that was created and not yet
\* destroyed exists for the identity, and it is the one in the registry map
\* `clients`, whatever the interleaving of concurrent initSession calls.
C1_OneHandle ==
  /\ Cardinality(Alive) <= 1
  /\ \A c \in Alive : clients = c

\* C2: an initSession call that begins while another initSession call for the
\* identity is still in flight returns the rejection `initializing`.
C2_SecondRejected == overlapStart => lastStart = "rejected"

\* C3: whenever no call or callback of the identity is mid-execution, the
\* persisted status is qr_required exactly if the persisted qrCode is non-null.
C3_QrIffRequired ==
  procs = {} => (session.status = "qr_required" <=> session.qrCode # Null)

\* C4: once a connection object has emitted more than MaxQrAttempts qr events
\* and every handler has finished, the persisted status is disconnected.
C4_EndsDisconnected ==
  \A c \in Clients :
    (cl[c].qrCount > MaxQrAttempts /\ procs = {}) => session.status = "disconnected"

\* nothing is left to happen for the identity: no call or callback is
\* suspended, no timer is pending, no connection object is left to emit events
Quiet ==
  /\ procs = {}
  /\ timers = {} /\ followTimers = {} /\ stateTimers = {} /\ restartTimers = 0
  /\ Alive = {}

\* C5: when an authenticated event has occurred, no ready event has, and
\* every timer has fired and every suspended call has run to its end, the
\* persisted status is not left at connecting.
C5_NeverStuckConnecting ==
  (Quiet /\ \E c \in Clients : cl[c].auths > 0 /\ ~cl[c].ready)
    => session.status # "connecting"

\* C6: once deleteSession has returned and no start or restart was requested
\* since, no Session and no Message document of the identity exists and
\* getSessionStatus returns the default.
C6_StaysDeleted ==
  deleted = "yes" =>
    /\ ~session.exists
    /\ messages = 0
    /\ getSessionStatus.status = "disconnected"
    /\ getSessionStatus.messageCount = 0

\* C7: once deleteSession has returned and has destroyed the connection object
\* it found, with no start in flight, the directory in which the connection
\* object kept its authentication artifacts is gone.
C7_ArtifactsRemoved ==
  (deleted = "yes" /\ Alive = {} /\ InitsInFlight = {}) => authDir \notin fs

\* C8: every outbound delivery was made for a subscription that, at the
\* lookup of its sendWebhook call, existed, was enabled and had an empty
\* filter or one containing the event; a call that begins while the stored
\* subscription is absent, disabled or filtering the event out finds nothing.
C8_Subscribed(doc, event) ==
  doc.exists /\ doc.enabled /\ (doc.events = {} \/ event \in doc.events)

C8_DeliveryOnlyIfSubscribed ==
  /\ [](\A r \in posts : C8_Subscribed(r.doc, r.ev))
  /\ [][\A p \in procs' :
          (p \notin procs /\ p.hook = "found") => C8_Subscribed(webhook, p.ev)]_vars

\* C8 witness: a delivery was made under a filter, and the subscription has
\* been disabled or deleted since.
C8_Witness ==
  /\ \E r \in posts : r.doc.events # {}
  /\ ~(webhook.exists /\ webhook.enabled)

\* a sendWebhook call of process p ends in this step
HookEnds(p) ==
  /\ p \in procs /\ p.hook # "none"
  /\ \A q \in procs' :
       (q.kind = p.kind /\ q.id = p.id) => (q.hook = "none" /\ q.pc = p.pc)
  /\ p.hook \in {"absent", "error", "post"}
  /\ p \notin procs'

\* C9: a failed delivery is never thrown to the caller of sendWebhook and no
\* delivery is made twice for one call; the step in which a sendWebhook call
\* ends leaves the registry and the Session document as they are, and a
\* caller with code after the call goes on there.
C9_FailureSwallowed ==
  /\ [](hookFailure # "thrown")
  /\ [](\A c \in Clients, e \in HookEvents : postsOf(c, e) <= hookCalls[c][e])
  /\ [][\A p \in procs :
          HookEnds(p) =>
            /\ registry' = registry
            /\ session' = session
            /\ (p.pc = "mr_webhook" =>
                  \E q \in procs' : q.kind = p.kind /\ q.id = p.id /\ q.pc = p.pc)]_vars

\* C9 witness: a delivery failed, and the qr transition it belongs to is
\* applied: the qr code is registered and persisted with qr_required.
C9_Witness ==
  /\ hookFailure = "logged"
  /\ procs = {}
  /\ qrCodes
  /\ session.status = "qr_required"

\* C10: a sendMessage call that finds no handle, or a handle without
\* client.info at the re-check after the grace period, returns that failure;
\* the steps of a call before the capability's send create no Message
\* document and leave the Session document as it is.
C10_NoPartialState ==
  [][/\ calls'.send # calls.send =>
          /\ messages' = messages
          /\ session' = session
          /\ (clients = NoClient => lastSend' = "Client not found")
     /\ \A p \in procs :
          (p.kind = "send" /\ p.pc = "grace" /\ p \notin procs') =>
            /\ messages' = messages
            /\ session' = session
            /\ (~cl[p.c].info =>
                  /\ lastSend' = "Client not ready"
                  /\ \A q \in procs' : ~(q.kind = "send" /\ q.id = p.id))]_vars

\* C10 witness: a call failed at the re-check while Message documents of the
\* identity exist and the Session document counts them.
C10_Witness ==
  /\ lastSend = "Client not ready"
  /\ messages > 0
  /\ session.messageCount > 0

\* C11: when only inbound messages have arrived and every one of their
\* handlers has finished, the persisted messageCount equals the number of
\* Message documents of the identity.
C11_CountMatchesStore ==
  (calls.message > 0 /\ calls.send = 0 /\ \A p \in procs : p.kind # "message")
    => session.messageCount = messages

\* C12: the snapshot of getSessionStatus reports connected only if the
\* persisted status is connected and the registry holds a connection object
\* with client.info.
C12_ConnectedNeedsStatus ==
  getSessionStatus.connected =>
    /\ getSessionStatus.status = "connected"
    /\ clients # NoClient /\ cl[clients].info

\* C13: for one connection object, sendWebhook is called with `ready` at most
\* once.
C13_ReadyOnce == \A c \in Clients : hookCalls[c]["ready"] <= 1

\* C14: a persisted Session record has a phoneNumber only while its status is
\* connected.
C14_PhoneOnlyConnected ==
  (session.exists /\ session.phoneNumber # Null) => session.status = "connected"

\* C15: while the Session record exists, its persisted messageCount never
\* decreases.
C15_CountMonotonic ==
  [][(session.exists /\ session'.exists)
       => session'.messageCount >= session.messageCount]_vars

\* C16: an initSession call that returns the rejection `initializing` leaves
\* the registry, the initializing flag, the ready-timeout, the cached qr code
\* and the Session record as they were.
C16_RejectionChangesNothing ==
  [][(calls'.start # calls.start /\ lastStart' = "rejected")
       => (registry' = registry /\ session' = session)]_vars

\* C17: while destroy() is in progress on a connection object, the registry
\* does not map the identity to that object.
C17_UnregisteredBeforeDestroy ==
  \A c \in Clients : cl[c].st = "destroying" => clients # c

\* a callback of a connection object, or of a timer armed for one
CallbackKinds ==
  {"qr", "authenticated", "ready", "disconnected", "auth_failure",
   "readyTimeout", "stateCheck", "followUp"}

\* C18: a callback that resumes for a connection object other than the one
\* the registry holds changes neither the Session record nor the registry and
\* calls no webhook.
C18_StaleCallbackInert ==
  [][\A p \in procs :
       (p.kind \in CallbackKinds /\ p.hook = "none" /\ p.c # NoClient
        /\ p.c # clients /\ p \notin procs')
         => (session' = session /\ registry' = registry /\ hookCalls' = hookCalls)]_vars

\* C19: restartSession calls alone, however they overlap, lead to one
\* connection object being created.
C19_OneAttempt == Cardinality(Created) <= 1

\* handleInitializationFailure, run by process p, completes in this step
FailureCompletes(p) ==
  /\ p \in procs /\ p.hook = "none"
  /\ p.pc = "fail_destroy" \/ (p.pc = "fail_status" /\ clients = NoClient)
  /\ p \notin procs'

\* C20: when handleInitializationFailure completes, no ready-timeout is
\* registered or pending, the registry holds no connection object, the one it
\* destroyed is destroyed, no qr code is cached, the initializing flag is
\* clear and the persisted status is disconnected.
C20_FailureConverges ==
  [][\A p \in procs :
       FailureCompletes(p) =>
         /\ readyTimeouts' = NoTimer /\ timers' = {}
         /\ clients' = NoClient
         /\ (p.c # NoClient => cl'[p.c].st = "destroyed")
         /\ ~qrCodes' /\ ~initializingClients'
         /\ session'.status = "disconnected"]_vars

\* a callback scheduled for connection object c with setTimeout runs in this
\* step: the 3 s change_state check, the 5 s follow-up check or a ready-timeout
\* (a cancelled ready-timeout leaves the pending set together with its entry
\* in readyTimeouts, a firing one leaves the entry alone)
TimerFires(c) ==
  \/ c \in stateTimers \ stateTimers'
  \/ c \in followTimers \ followTimers'
  \/ \E t \in timers \ timers' : t[1] = c /\ readyTimeouts' = readyTimeouts

\* C21: once a connection object is destroyed (disconnected, failure or
\* delete), a timer created for it that fires changes neither the Session
\* record nor the registry.
C21_NoLateTimer ==
  [][\A c \in Clients :
       (cl[c].st = "destroyed" /\ TimerFires(c))
         => (session' = session /\ registry' = registry)]_vars

\* C22: a delayed initSession (the re-attempt that restartSession schedules)
\* is pending only if restartSession was requested through the control
\* surface.
C22_NoAutomaticRetry == restartTimers > 0 => calls.restart > 0

\* C23: no state has a live connection object that emitted ready and has no
\* client.info, the persisted status connecting, no handler running, no
\* ready-timeout armed and no check scheduled.
C23_ReadyWithoutInfoResolved ==
  ~ \E c \in Clients :
      /\ cl[c].st = "live" /\ cl[c].ready /\ ~cl[c].info
      /\ session.status = "connecting"
      /\ procs = {}
      /\ readyTimeouts = NoTimer /\ timers = {}
      /\ followTimers = {} /\ stateTimers = {} /\ restartTimers = 0

\* C24: while the disconnected handler of the registered connection object
\* has not yet removed it from the registry, the snapshot of getSessionStatus
\* does not report connected.
C24_DisconnectedNotReported ==
  \A p \in procs :
    (p.kind = "disconnected" /\ p.pc = "status" /\ p.c = clients)
      => ~getSessionStatus.connected

\* C26: whenever no handler is mid-execution, a registered ready-timeout or a
\* cached qr code comes with a connection object in the registry.
C26_TimeoutAndQrNeedHandle ==
  procs = {} => ((readyTimeouts # NoTimer \/ qrCodes) => clients # NoClient)

\* C27: when a sendMessage call issues client.sendMessage, its connection
\* object is the one the registry holds.
C27_SendOnlyOnRegistered ==
  [][\A p \in procs' :
       (p.kind = "send" /\ p.pc = "sending" /\ p \notin procs) => p.c = clients]_vars

\* C28: a Session record persisted as connected carries a phoneNumber.
C28_ConnectedHasPhone ==
  session.status = "connected" => session.phoneNumber # Null

\* C25: at most one recovery initSession call is in flight and none is in
\* flight during the loop's delay; the loop attempts only sessions found as
\* connected; and when it ends after a successful find, every such session
\* has been attempted, whether earlier attempts failed or not.
C25_OneAtATime ==
  /\ Cardinality(Recovering) <= 1
  /\ restore.pc \in {"find", "delay", "done"} => Recovering = {}
  /\ \A i \in Identities : restore.run[i] # "none" => i \in restore.sessions
  /\ (restore.pc = "done" /\ restore.found) =>
       \A i \in restore.sessions : restore.run[i] \in {"ok", "failed"}

\* C25 witness: the loop has ended, one attempt failed and a later one was made.
C25_Witness ==
  /\ restore.pc = "done"
  /\ \E i, j \in Identities : i < j /\ restore.run[i] = "failed" /\ restore.run[j] = "ok"

====
